---- MODULE Spec2Model ----
(***************************************************************************)
(* A model of crypto/evp/mac_lib.c: the generic EVP_MAC dispatch layer.    *)
(*                                                                         *)
(* Contexts (EVP_MAC_CTX) live in numbered slots, private states           *)
(* (ctx->data) are numbered heap objects that are never reused, so that    *)
(* "destroyed exactly once" and "owned by exactly one context" can be      *)
(* counted.  Every function of mac_lib.c is an operator on a "world"       *)
(* record (contexts, private states, the entries invoked, the errors       *)
(* raised, the memory released) that returns the new world and the C       *)
(* return value; EVP_MAC_oneshot and the ctrl wrappers compose these       *)
(* operators exactly as the C code composes the functions.                 *)
(***************************************************************************)
EXTENDS Integers, Sequences, FiniteSets, TLC

\* ------------------------------------------------------------------ bounds
MaxCtx == 2
MaxPriv == 3
MaxByte == 0
MaxLen == 1

\* --------------------------------------------------------------- constants
NULL == 0
INT_MAX == 2147483647
EVP_MAC_CTRL_SET_KEY == 1
EVP_MAC_CTRL_OTHER == 2
Mod == 3
MaxKeyLen == 1

CtxIds == 1..MaxCtx
PrivIds == 1..MaxPriv
Bytes == 0..MaxByte

RECURSIVE SeqsUpTo(_)
SeqsUpTo(n) ==
    IF n = 0 THEN {<<>>}
    ELSE LET S == SeqsUpTo(n - 1)
         IN S \cup {Append(s, b) : s \in {t \in S : Len(t) = n - 1}, b \in Bytes}

ByteStrings == SeqsUpTo(MaxLen)
Keys == {<<>>} \cup {<<b>> : b \in Bytes}
Cmds == {EVP_MAC_CTRL_SET_KEY, EVP_MAC_CTRL_OTHER}

\* ------------------------------------------------ method descriptors (EVP_MAC)
\* has_ctrl / has_ctrl_str: the ctrl / ctrl_str entry is not NULL.
\* init_ok, update_ok, final_ok, reset_ok: what the entry returns.
\* keyfail: the status ctrl returns for a key it rejects (the empty key).
\* size_fixed: size() does not depend on the state having been initialised.
\* An entry that succeeds does this to the private state: init starts a
\* computation, update absorbs the bytes into acc, final yields the tag of
\* acc and the key and ends the computation, reset goes back to the state
\* new() made but keeps the key; ctrl knows one command, which sets the key.
MacHmac ==
    [name |-> "hmac", has_ctrl |-> TRUE, has_ctrl_str |-> TRUE,
     init_ok |-> TRUE, update_ok |-> TRUE, final_ok |-> TRUE, reset_ok |-> TRUE,
     keyfail |-> 0, size_fixed |-> FALSE, outsize |-> 2]

MacPoly ==
    [name |-> "poly", has_ctrl |-> TRUE, has_ctrl_str |-> FALSE,
     init_ok |-> TRUE, update_ok |-> TRUE, final_ok |-> TRUE, reset_ok |-> FALSE,
     keyfail |-> -1, size_fixed |-> TRUE, outsize |-> 1]

MacBare ==
    [name |-> "bare", has_ctrl |-> FALSE, has_ctrl_str |-> FALSE,
     init_ok |-> TRUE, update_ok |-> TRUE, final_ok |-> TRUE, reset_ok |-> TRUE,
     keyfail |-> 0, size_fixed |-> TRUE, outsize |-> 1]

MacNoInit == [MacHmac EXCEPT !.name = "noinit", !.init_ok = FALSE]

MacNoUpdate == [MacHmac EXCEPT !.name = "noupdate", !.update_ok = FALSE]

MacNoFinal == [MacHmac EXCEPT !.name = "nofinal", !.final_ok = FALSE]

Macs == {MacHmac, MacPoly, MacBare, MacNoInit, MacNoUpdate, MacNoFinal}

\* The descriptors contexts are created from in the long-running Spec.
LiveMacs == {MacHmac, MacPoly, MacBare}

\* ------------------------------------------------ private state (ctx->data)
\* st: "unalloc" | "live" | "freed"; by, via: the name of the descriptor and
\* the entry ("new" or "copy") that produced it; nfree: how often a free
\* entry was given it.
BlankPriv ==
    [st |-> "unalloc", by |-> "", via |-> "", nfree |-> 0,
     inited |-> FALSE, key |-> <<>>, acc |-> 0]

FreshPriv(mac) == [BlankPriv EXCEPT !.st = "live", !.by = mac.name, !.via = "new"]

RECURSIVE Absorb(_, _)
Absorb(acc, data) ==
    IF data = <<>> THEN acc
    ELSE Absorb((acc * 2 + Head(data) + 1) % Mod, Tail(data))

KeyVal(key) == IF key = <<>> THEN 0 ELSE Head(key) + 1

Tag(mac, s) == [i \in 1..mac.outsize |-> (s.acc + i * KeyVal(s.key)) % Mod]

mac_size(mac, s) == IF mac.size_fixed \/ s.inited THEN mac.outsize ELSE 0

mac_init(mac, s) ==
    IF mac.init_ok
    THEN [s |-> [s EXCEPT !.inited = TRUE, !.acc = 0], ret |-> 1]
    ELSE [s |-> s, ret |-> 0]

mac_update(mac, s, data) ==
    IF mac.update_ok
    THEN [s |-> [s EXCEPT !.acc = Absorb(s.acc, data)], ret |-> 1]
    ELSE [s |-> s, ret |-> 0]

mac_final(mac, s) ==
    IF mac.final_ok
    THEN [s |-> [s EXCEPT !.inited = FALSE], ret |-> 1, out |-> Tag(mac, s)]
    ELSE [s |-> s, ret |-> 0, out |-> <<>>]

mac_reset(mac, s) ==
    IF mac.reset_ok
    THEN [s |-> [s EXCEPT !.inited = FALSE, !.acc = 0], ret |-> 1]
    ELSE [s |-> s, ret |-> 0]

mac_ctrl(mac, s, cmd, arg) ==
    IF cmd = EVP_MAC_CTRL_SET_KEY
    THEN IF arg.len > 0 /\ arg.len <= MaxKeyLen
         THEN [s |-> [s EXCEPT !.key = arg.bytes], ret |-> 1]
         ELSE [s |-> s, ret |-> mac.keyfail]
    ELSE [s |-> s, ret |-> -2]

mac_ctrl_str(mac, s, type, value) ==
    IF type = "key"
    THEN IF value # <<>> /\ Len(value) <= MaxKeyLen
         THEN [s |-> [s EXCEPT !.key = value], ret |-> 1]
         ELSE [s |-> s, ret |-> 0]
    ELSE [s |-> s, ret |-> -2]


\* ------------------------------------------------------- contexts and world
\* The method reference of a zeroed or released context (ctx->meth == NULL).
NoMeth ==
    [name |-> "NULL", has_ctrl |-> FALSE, has_ctrl_str |-> FALSE,
     init_ok |-> FALSE, update_ok |-> FALSE, final_ok |-> FALSE, reset_ok |-> FALSE,
     keyfail |-> 0, size_fixed |-> FALSE, outsize |-> 0]

\* What OPENSSL_zalloc(sizeof(EVP_MAC_CTX)) returns: both fields zero.
ZeroCtx == [live |-> TRUE, meth |-> NoMeth, data |-> NULL]

\* A slot that holds no context (never allocated, or released).
DeadCtx == [live |-> FALSE, meth |-> NoMeth, data |-> NULL]

\* A world: the contexts, the private states, and what the running call has
\* done so far: the descriptor entries invoked, the errors raised, the
\* contexts released, the decode buffers produced and released, whether the
\* code stored through a null pointer and whether that stopped the program.
World(c, p) ==
    [ctxs |-> c, priv |-> p, calls |-> <<>>, errs |-> <<>>, released |-> <<>>,
     balloc |-> 0, bfree |-> 0, deref |-> FALSE, crashed |-> FALSE]

Min(S) == CHOOSE x \in S : \A y \in S : x <= y

FreeSlots(w) == {c \in CtxIds : ~w.ctxs[c].live}

FreshPrivs(w) == {p \in PrivIds : w.priv[p].st = "unalloc"}

\* The log of descriptor entries invoked: the entry, the descriptor, the
\* private state and the argument it was given, and what it returned.
Called(w, fn, mac, p, arg, ret) ==
    [w EXCEPT !.calls = Append(@, [fn |-> fn, mac |-> mac.name, p |-> p,
                                   arg |-> arg, ret |-> ret])]

EVPerr(w, f, r) == [w EXCEPT !.errs = Append(@, <<f, r>>)]

\* OPENSSL_zalloc of a context; ok = FALSE is the allocator failing.
OPENSSL_zalloc(w, ok) ==
    IF ok
    THEN LET c == Min(FreeSlots(w))
         IN [w |-> [w EXCEPT !.ctxs[c] = ZeroCtx], ret |-> c]
    ELSE [w |-> w, ret |-> NULL]

\* OPENSSL_free of a context pointer: a no-op on NULL.
OPENSSL_free(w, ctx) ==
    IF ctx = NULL THEN w
    ELSE [w EXCEPT !.ctxs[ctx] = DeadCtx, !.released = Append(@, ctx)]

\* mac->new(): a fresh private state, or NULL when ok = FALSE.
mac_new(w, mac, ok) ==
    IF ok
    THEN LET p == Min(FreshPrivs(w))
         IN [w |-> Called([w EXCEPT !.priv[p] = FreshPriv(mac)], "new", mac, NULL, <<>>, p),
             ret |-> p]
    ELSE [w |-> Called(w, "new", mac, NULL, <<>>, NULL), ret |-> NULL]

\* mac->free(data)
mac_free(w, mac, p) ==
    Called([w EXCEPT !.priv[p] =
                [BlankPriv EXCEPT !.st = "freed", !.by = w.priv[p].by,
                                  !.via = w.priv[p].via,
                                  !.nfree = w.priv[p].nfree + 1]],
           "free", mac, p, <<>>, 1)

\* mac->copy(src): a fresh duplicate of the private state, or NULL.
mac_copy(w, mac, src, ok) ==
    IF ok
    THEN LET p == Min(FreshPrivs(w))
         IN [w |-> Called([w EXCEPT !.priv[p] = [w.priv[src] EXCEPT !.by = mac.name, !.via = "copy"]],
                          "copy", mac, src, <<>>, p),
             ret |-> p]
    ELSE [w |-> Called(w, "copy", mac, src, <<>>, NULL), ret |-> NULL]

\* ------------------------------------------------------ context lifecycle
\* ub: what the store through the null ctx at line 28 does in this build:
\* "crash" (the store faults) or "skip" (the store has no visible effect).
EVP_MAC_CTX_new(w, mac, allocok, newok, ub) ==
    LET a == OPENSSL_zalloc(w, allocok)
        ctx == a.ret
        n == IF ctx = NULL THEN [w |-> a.w, ret |-> NULL] ELSE mac_new(a.w, mac, newok)
    IN IF ctx = NULL \/ n.ret = NULL
       THEN LET w1 == EVPerr(n.w, "EVP_MAC_CTX_new", "MALLOC_FAILURE")
                w2 == OPENSSL_free(w1, ctx)
            IN [w |-> [w2 EXCEPT !.deref = TRUE, !.crashed = (ub = "crash")],
                ret |-> NULL]
       ELSE [w |-> [n.w EXCEPT !.ctxs[ctx].data = n.ret, !.ctxs[ctx].meth = mac],
             ret |-> ctx]

evp_mac_ctx_cleanup(w, ctx) ==
    IF ctx # NULL /\ w.ctxs[ctx].data # NULL
    THEN [mac_free(w, w.ctxs[ctx].meth, w.ctxs[ctx].data) EXCEPT !.ctxs[ctx].data = NULL]
    ELSE w

\* A free that forgets the cleanup of the private state.
EVP_MAC_CTX_free_nocleanup(w, ctx) == OPENSSL_free(w, ctx)

EVP_MAC_CTX_free(w, ctx) == OPENSSL_free(evp_mac_ctx_cleanup(w, ctx), ctx)

\* A copy that returns on a failed duplicate without storing the NULL: dst
\* keeps the pointer to src's private state that *dst = *src gave it.
EVP_MAC_CTX_copy_keep(w, dst, src, copyok) ==
    LET w1 == [w EXCEPT !.ctxs[dst] = w.ctxs[src]]
        sdata == w1.ctxs[src].data
    IN IF sdata # NULL
       THEN LET d == mac_copy(w1, w1.ctxs[dst].meth, sdata, copyok)
            IN IF d.ret = NULL
               THEN [w |-> EVPerr(d.w, "EVP_MAC_CTX_copy", "MALLOC_FAILURE"), ret |-> 0]
               ELSE [w |-> [d.w EXCEPT !.ctxs[dst].data = d.ret], ret |-> 1]
       ELSE [w |-> w1, ret |-> 1]

\* A copy that assigns only the data: dst keeps its own descriptor and has
\* that descriptor duplicate the source's private state.
EVP_MAC_CTX_copy_ownmeth(w, dst, src, copyok) ==
    LET sdata == w.ctxs[src].data
    IN IF sdata # NULL
       THEN LET d == mac_copy(w, w.ctxs[dst].meth, sdata, copyok)
                w2 == [d.w EXCEPT !.ctxs[dst].data = d.ret]
            IN IF d.ret = NULL
               THEN [w |-> EVPerr(w2, "EVP_MAC_CTX_copy", "MALLOC_FAILURE"), ret |-> 0]
               ELSE [w |-> w2, ret |-> 1]
       ELSE [w |-> [w EXCEPT !.ctxs[dst].data = NULL], ret |-> 1]

\* A copy that stops after the structure assignment: dst shares src's data.
EVP_MAC_CTX_copy_alias(w, dst, src, copyok) ==
    [w |-> [w EXCEPT !.ctxs[dst] = w.ctxs[src]], ret |-> 1]

EVP_MAC_CTX_copy(w, dst, src, copyok) ==
    LET w1 == [w EXCEPT !.ctxs[dst] = w.ctxs[src]]
        sdata == w1.ctxs[src].data
    IN IF sdata # NULL
       THEN LET d == mac_copy(w1, w1.ctxs[dst].meth, sdata, copyok)
                w2 == [d.w EXCEPT !.ctxs[dst].data = d.ret]
            IN IF d.ret = NULL
               THEN [w |-> EVPerr(w2, "EVP_MAC_CTX_copy", "MALLOC_FAILURE"), ret |-> 0]
               ELSE [w |-> w2, ret |-> 1]
       ELSE [w |-> w1, ret |-> 1]

\* ---------------------------------------------------- streaming operations
\* Apply a descriptor entry's result r = [s, ret] to the private state p.
Entry(w, fn, mac, p, arg, r) ==
    Called([w EXCEPT !.priv[p] = r.s], fn, mac, p, arg, r.ret)

\* A reset that destroys the private state and constructs a new one.
EVP_MAC_reset_realloc(w, ctx) ==
    LET c == w.ctxs[ctx]
    IN IF c.data # NULL /\ FreshPrivs(w) # {}
       THEN LET n == mac_new(mac_free(w, c.meth, c.data), c.meth, TRUE)
            IN [w |-> [n.w EXCEPT !.ctxs[ctx].data = n.ret], ret |-> 1]
       ELSE [w |-> w, ret |-> 1]

EVP_MAC_reset(w, ctx) ==
    LET c == w.ctxs[ctx]
    IN IF c.data # NULL
       THEN LET r == mac_reset(c.meth, w.priv[c.data])
            IN [w |-> Entry(w, "reset", c.meth, c.data, <<>>, r), ret |-> r.ret]
       ELSE [w |-> w, ret |-> 1]

EVP_MAC_size(w, ctx) ==
    LET c == w.ctxs[ctx]
    IN IF c.data # NULL
       THEN LET n == mac_size(c.meth, w.priv[c.data])
            IN [w |-> Called(w, "size", c.meth, c.data, <<>>, n), ret |-> n]
       ELSE [w |-> w, ret |-> 0]

EVP_MAC_init(w, ctx) ==
    LET c == w.ctxs[ctx]
        r == mac_init(c.meth, w.priv[c.data])
    IN [w |-> Entry(w, "init", c.meth, c.data, <<>>, r), ret |-> r.ret]

\* An update that hands the entry a computation started afresh: what was
\* absorbed before the call is forgotten.
EVP_MAC_update_restart(w, ctx, data) ==
    LET c == w.ctxs[ctx]
        r == mac_update(c.meth, [w.priv[c.data] EXCEPT !.acc = 0], data)
    IN [w |-> Entry(w, "update", c.meth, c.data, data, r), ret |-> r.ret]

\* An update that keeps the running computation in the descriptor: every
\* private state of the same descriptor absorbs the bytes.
EVP_MAC_update_shared(w, ctx, data) ==
    LET c == w.ctxs[ctx]
        r == mac_update(c.meth, w.priv[c.data], data)
        w1 == Entry(w, "update", c.meth, c.data, data, r)
    IN [w |-> [w1 EXCEPT !.priv =
                  [p \in PrivIds |->
                      IF p # c.data /\ w.priv[p].st = "live" /\ w.priv[p].by = c.meth.name
                      THEN mac_update(c.meth, w.priv[p], data).s
                      ELSE w1.priv[p]]],
        ret |-> r.ret]

EVP_MAC_update(w, ctx, data) ==
    LET c == w.ctxs[ctx]
        r == mac_update(c.meth, w.priv[c.data], data)
    IN [w |-> Entry(w, "update", c.meth, c.data, data, r), ret |-> r.ret]

\* A final that tests out before it writes *poutlen.
EVP_MAC_final_late(w, ctx, out, poutlen) ==
    LET c == w.ctxs[ctx]
        n == mac_size(c.meth, w.priv[c.data])
    IN IF ~out
       THEN [w |-> w, ret |-> 1, wrote |-> FALSE, out |-> <<>>,
             wrotelen |-> FALSE, outlen |-> 0]
       ELSE LET w1 == IF poutlen THEN Called(w, "size", c.meth, c.data, <<>>, n) ELSE w
                r == mac_final(c.meth, w1.priv[c.data])
            IN [w |-> Entry(w1, "final", c.meth, c.data, <<>>, r), ret |-> r.ret,
                wrote |-> (r.ret = 1), out |-> r.out,
                wrotelen |-> poutlen, outlen |-> IF poutlen THEN n ELSE 0]

\* out, poutlen: whether the caller supplied the buffer / the length
\* destination.  wrote, wrotelen: whether each was written, and with what.
EVP_MAC_final(w, ctx, out, poutlen) ==
    LET c == w.ctxs[ctx]
        n == mac_size(c.meth, w.priv[c.data])
        w1 == IF poutlen THEN Called(w, "size", c.meth, c.data, <<>>, n) ELSE w
        len == IF poutlen THEN n ELSE 0
    IN IF ~out
       THEN [w |-> w1, ret |-> 1, wrote |-> FALSE, out |-> <<>>,
             wrotelen |-> poutlen, outlen |-> len]
       ELSE LET r == mac_final(c.meth, w1.priv[c.data])
            IN [w |-> Entry(w1, "final", c.meth, c.data, <<>>, r), ret |-> r.ret,
                wrote |-> (r.ret = 1), out |-> r.out,
                wrotelen |-> poutlen, outlen |-> len]


\* ------------------------------------------------------ control commands
\* A router without the else branch of line 112: ok keeps its initial -1.
EVP_MAC_ctrl_noelse(w, ctx, cmd, arg) ==
    IF ctx = NULL \/ w.ctxs[ctx].meth = NoMeth
    THEN [w |-> EVPerr(w, "EVP_MAC_ctrl", "COMMAND_NOT_SUPPORTED"), ret |-> -2]
    ELSE LET c == w.ctxs[ctx]
         IN IF c.meth.has_ctrl
            THEN LET e == mac_ctrl(c.meth, w.priv[c.data], cmd, arg)
                     w1 == Entry(w, "ctrl", c.meth, c.data,
                                 [cmd |-> cmd, bytes |-> arg.bytes, len |-> arg.len], e)
                 IN [w |-> IF e.ret = -2
                           THEN EVPerr(w1, "EVP_MAC_ctrl", "COMMAND_NOT_SUPPORTED")
                           ELSE w1,
                     ret |-> e.ret]
            ELSE [w |-> w, ret |-> -1]

\* A router without the report of lines 118-119: a -2 from the ctrl entry
\* or from the missing entry is returned unreported.
EVP_MAC_ctrl_quiet(w, ctx, cmd, arg) ==
    IF ctx = NULL \/ w.ctxs[ctx].meth = NoMeth
    THEN [w |-> EVPerr(w, "EVP_MAC_ctrl", "COMMAND_NOT_SUPPORTED"), ret |-> -2]
    ELSE LET c == w.ctxs[ctx]
         IN IF c.meth.has_ctrl
            THEN LET e == mac_ctrl(c.meth, w.priv[c.data], cmd, arg)
                 IN [w |-> Entry(w, "ctrl", c.meth, c.data,
                                 [cmd |-> cmd, bytes |-> arg.bytes, len |-> arg.len], e),
                     ret |-> e.ret]
            ELSE [w |-> w, ret |-> -2]

\* arg: the variadic arguments of a command, a byte pointer and its length.
EVP_MAC_ctrl(w, ctx, cmd, arg) ==
    IF ctx = NULL \/ w.ctxs[ctx].meth = NoMeth
    THEN [w |-> EVPerr(w, "EVP_MAC_ctrl", "COMMAND_NOT_SUPPORTED"), ret |-> -2]
    ELSE LET c == w.ctxs[ctx]
             r == IF c.meth.has_ctrl
                  THEN LET e == mac_ctrl(c.meth, w.priv[c.data], cmd, arg)
                       IN [w |-> Entry(w, "ctrl", c.meth, c.data,
                                       [cmd |-> cmd, bytes |-> arg.bytes, len |-> arg.len], e),
                           ok |-> e.ret]
                  ELSE [w |-> w, ok |-> -2]
         IN [w |-> IF r.ok = -2
                   THEN EVPerr(r.w, "EVP_MAC_ctrl", "COMMAND_NOT_SUPPORTED")
                   ELSE r.w,
             ret |-> r.ok]

\* A string control that does not test for the ctrl_str entry and keeps
\* its initial ok = 1 when there is none.
EVP_MAC_ctrl_str_nocheck(w, ctx, type, value) ==
    IF ctx = NULL \/ w.ctxs[ctx].meth = NoMeth
    THEN [w |-> EVPerr(w, "EVP_MAC_ctrl_str", "COMMAND_NOT_SUPPORTED"), ret |-> -2]
    ELSE LET c == w.ctxs[ctx]
         IN IF c.meth.has_ctrl_str
            THEN LET e == mac_ctrl_str(c.meth, w.priv[c.data], type, value)
                     w1 == Entry(w, "ctrl_str", c.meth, c.data,
                                 [type |-> type, value |-> value], e)
                 IN [w |-> IF e.ret = -2
                           THEN EVPerr(w1, "EVP_MAC_ctrl_str", "COMMAND_NOT_SUPPORTED")
                           ELSE w1,
                     ret |-> e.ret]
            ELSE [w |-> w, ret |-> 1]

EVP_MAC_ctrl_str(w, ctx, type, value) ==
    IF ctx = NULL \/ w.ctxs[ctx].meth = NoMeth \/ ~w.ctxs[ctx].meth.has_ctrl_str
    THEN [w |-> EVPerr(w, "EVP_MAC_ctrl_str", "COMMAND_NOT_SUPPORTED"), ret |-> -2]
    ELSE LET c == w.ctxs[ctx]
             e == mac_ctrl_str(c.meth, w.priv[c.data], type, value)
             w1 == Entry(w, "ctrl_str", c.meth, c.data, [type |-> type, value |-> value], e)
         IN [w |-> IF e.ret = -2
                   THEN EVPerr(w1, "EVP_MAC_ctrl_str", "COMMAND_NOT_SUPPORTED")
                   ELSE w1,
             ret |-> e.ret]

\* A hex string is the characters in digits followed by reps copies of
\* "00", so that a string longer than 2 * INT_MAX characters can be named
\* without being enumerated.
HexVal(ch) ==
    CASE ch = "0" -> 0
      [] ch = "1" -> 1
      [] ch = "a" -> 10
      [] ch = "f" -> 15
      [] OTHER -> -1

HexByte(hi, lo) == 16 * HexVal(hi) + HexVal(lo)

\* OPENSSL_hexstr2buf: the decoded buffer and its length, or NULL (ok is
\* FALSE) on an odd number of digits, a character that is no hex digit or a
\* failed allocation (allocok = FALSE).  The length is a C long, wider than
\* the integers of the model checker: it is Len(bytes) + extra, where extra
\* counts the zero bytes decoded from the repeated "00" of the string.
OPENSSL_hexstr2buf(hex, allocok) ==
    LET d == hex.digits
        n == Len(d)
    IN IF ~allocok \/ n % 2 # 0 \/ (\E i \in 1..n : HexVal(d[i]) < 0)
       THEN [ok |-> FALSE, bytes |-> <<>>, extra |-> 0]
       ELSE [ok |-> TRUE,
             bytes |-> [i \in 1..(n \div 2) |-> HexByte(d[2 * i - 1], d[2 * i])],
             extra |-> hex.reps]

\* binlen <= INT_MAX on the long binlen = Len(bytes) + extra.
FitsInt(bin) == bin.extra <= INT_MAX - Len(bin.bytes)

\* A wrapper that returns -1 for an over-long buffer before releasing it.
EVP_MAC_hex2ctrl_leak(w, ctx, cmd, hex, allocok) ==
    LET bin == OPENSSL_hexstr2buf(hex, allocok)
    IN IF ~bin.ok
       THEN [w |-> w, ret |-> 0]
       ELSE LET w1 == [w EXCEPT !.balloc = @ + 1]
            IN IF ~FitsInt(bin)
               THEN [w |-> w1, ret |-> -1]
               ELSE LET r == EVP_MAC_ctrl(w1, ctx, cmd,
                                          [bytes |-> bin.bytes,
                                           len |-> Len(bin.bytes) + bin.extra])
                    IN [w |-> [r.w EXCEPT !.bfree = @ + 1], ret |-> r.ret]

EVP_MAC_hex2ctrl(w, ctx, cmd, hex, allocok) ==
    LET bin == OPENSSL_hexstr2buf(hex, allocok)
    IN IF ~bin.ok
       THEN [w |-> w, ret |-> 0]
       ELSE LET w1 == [w EXCEPT !.balloc = @ + 1]
                r == IF FitsInt(bin)
                     THEN EVP_MAC_ctrl(w1, ctx, cmd,
                                       [bytes |-> bin.bytes,
                                        len |-> Len(bin.bytes) + bin.extra])
                     ELSE [w |-> w1, ret |-> -1]
            IN [w |-> [r.w EXCEPT !.bfree = @ + 1], ret |-> r.ret]

\* ------------------------------------------------------------- one-shot
\* The value of a one-element set: {e(x) : x \in {call}} names the result
\* of a call once, as a C local does.
The(S) == CHOOSE x \in S : TRUE

NoOut == [wrote |-> FALSE, out |-> <<>>, wrotelen |-> FALSE, outlen |-> 0]

Step(steps, fn, ret) == Append(steps, [fn |-> fn, ret |-> ret])

\* Lines 178-179: free the context and return ok.  steps lists the functions
\* the || chain called with what each returned, o is what EVP_MAC_final
\* wrote.
Oneshot_end(w, ctx, steps, ok, o) ==
    [w |-> EVP_MAC_CTX_free(w, ctx), ret |-> ok, steps |-> steps,
     wrote |-> o.wrote, out |-> o.out, wrotelen |-> o.wrotelen, outlen |-> o.outlen]

\* Line 175, reached when EVP_MAC_update returned non-zero.
Oneshot_final(w, ctx, steps, out, poutlen) ==
    The({Oneshot_end(f.w, ctx, Step(steps, "EVP_MAC_final", f.ret),
                     IF f.ret = 0 THEN 0 ELSE 1, f) :
         f \in {EVP_MAC_final(w, ctx, out, poutlen)}})

\* Line 174, reached when EVP_MAC_ctrl returned non-zero.
Oneshot_update(w, ctx, steps, data, out, poutlen) ==
    The({IF u.ret = 0
         THEN Oneshot_end(u.w, ctx, Step(steps, "EVP_MAC_update", u.ret), 0, NoOut)
         ELSE Oneshot_final(u.w, ctx, Step(steps, "EVP_MAC_update", u.ret), out, poutlen) :
         u \in {EVP_MAC_update(w, ctx, data)}})

\* Line 173, reached when EVP_MAC_init returned non-zero.
Oneshot_ctrl(w, ctx, steps, key, data, out, poutlen) ==
    The({IF k.ret = 0
         THEN Oneshot_end(k.w, ctx, Step(steps, "EVP_MAC_ctrl", k.ret), 0, NoOut)
         ELSE Oneshot_update(k.w, ctx, Step(steps, "EVP_MAC_ctrl", k.ret),
                             data, out, poutlen) :
         k \in {EVP_MAC_ctrl(w, ctx, EVP_MAC_CTRL_SET_KEY,
                             [bytes |-> key, len |-> Len(key)])}})

\* Line 172, reached when EVP_MAC_CTX_new returned a context.
Oneshot_init(w, ctx, steps, key, data, out, poutlen) ==
    The({IF i.ret = 0
         THEN Oneshot_end(i.w, ctx, Step(steps, "EVP_MAC_init", i.ret), 0, NoOut)
         ELSE Oneshot_ctrl(i.w, ctx, Step(steps, "EVP_MAC_init", i.ret),
                           key, data, out, poutlen) :
         i \in {EVP_MAC_init(w, ctx)}})

\* The || chain of lines 171-175: a step runs only if every step before it
\* returned non-zero (non-NULL for EVP_MAC_CTX_new).  A crash inside
\* EVP_MAC_CTX_new ends the call without a return.
EVP_MAC_oneshot(w, mac, key, data, out, poutlen, allocok, newok, ub) ==
    The({IF n.w.crashed
         THEN [w |-> n.w, ret |-> 0, steps |-> Step(<<>>, "EVP_MAC_CTX_new", n.ret),
               wrote |-> FALSE, out |-> <<>>, wrotelen |-> FALSE, outlen |-> 0]
         ELSE IF n.ret = NULL
         THEN Oneshot_end(n.w, NULL, Step(<<>>, "EVP_MAC_CTX_new", n.ret), 0, NoOut)
         ELSE Oneshot_init(n.w, n.ret, Step(<<>>, "EVP_MAC_CTX_new", n.ret),
                           key, data, out, poutlen) :
         n \in {EVP_MAC_CTX_new(w, mac, allocok, newok, ub)}})

\* ------------------------------------------------------------------ state
\* ctxs: the context slots; priv: the private states; crashed: the program
\* was stopped by a fault; last: the call just made, its inputs (in), its
\* return value and what it did (the log fields of its final world), and
\* its outputs (res).
VARIABLES ctxs, priv, crashed, last

vars == <<ctxs, priv, crashed, last>>

W == World(ctxs, priv)

Live == {c \in CtxIds : ctxs[c].live}

\* Contexts the streaming entries may be given: Init, Update, Final and the
\* control entries pass ctx->data to the descriptor unchecked, and callers
\* must not make these calls on a context without private state.
Ready == {c \in Live : ctxs[c].data # NULL}

HexInputs ==
    {[digits |-> <<"0", "0", "f", "f">>, reps |-> 0],
     [digits |-> <<"0", "1">>, reps |-> 0],
     [digits |-> <<"a", "f">>, reps |-> 0],
     [digits |-> <<"g", "g">>, reps |-> 0],
     [digits |-> <<"f">>, reps |-> 0],
     [digits |-> <<>>, reps |-> INT_MAX],
     [digits |-> <<"0", "0">>, reps |-> INT_MAX]}

NoCall ==
    [op |-> "none", in |-> <<>>, ret |-> 0, returned |-> TRUE,
     calls |-> <<>>, errs |-> <<>>, released |-> <<>>,
     balloc |-> 0, bfree |-> 0, deref |-> FALSE, res |-> <<>>]

Init ==
    /\ ctxs = [c \in CtxIds |-> DeadCtx]
    /\ priv = [p \in PrivIds |-> BlankPriv]
    /\ crashed = FALSE
    /\ last = NoCall

\* The step of the state machine that makes the call op with inputs in: r is
\* what the function's operator returns, its final world and return value
\* and, for the functions with output parameters, what they wrote.
Do(op, in, r) ==
    \E x \in {r} :
        /\ ctxs' = x.w.ctxs
        /\ priv' = x.w.priv
        /\ crashed' = x.w.crashed
        /\ last' = [op |-> op, in |-> in, ret |-> x.ret, returned |-> ~x.w.crashed,
                    calls |-> x.w.calls, errs |-> x.w.errs, released |-> x.w.released,
                    balloc |-> x.w.balloc, bfree |-> x.w.bfree, deref |-> x.w.deref,
                    res |-> [f \in DOMAIN x \ {"w", "ret"} |-> x[f]]]

New ==
    /\ ~crashed
    /\ \E mac \in LiveMacs, allocok, newok \in BOOLEAN, ub \in {"crash", "skip"} :
          /\ allocok => FreeSlots(W) # {}
          /\ (allocok /\ newok) => FreshPrivs(W) # {}
          /\ Do("EVP_MAC_CTX_new", [mac |-> mac, allocok |-> allocok, newok |-> newok],
                EVP_MAC_CTX_new(W, mac, allocok, newok, ub))

Free ==
    /\ ~crashed
    /\ \E ctx \in Live \cup {NULL} :
          Do("EVP_MAC_CTX_free", [ctx |-> ctx], [w |-> EVP_MAC_CTX_free(W, ctx), ret |-> 0])

\* The two contexts of a copy are different contexts.
Copy ==
    /\ ~crashed
    /\ \E dst \in Live : \E src \in Live \ {dst}, copyok \in BOOLEAN :
          /\ (copyok /\ ctxs[src].data # NULL) => FreshPrivs(W) # {}
          /\ Do("EVP_MAC_CTX_copy", [dst |-> dst, src |-> src, copyok |-> copyok],
                EVP_MAC_CTX_copy(W, dst, src, copyok))

Reset ==
    /\ ~crashed
    /\ \E ctx \in Live :
          Do("EVP_MAC_reset", [ctx |-> ctx], EVP_MAC_reset(W, ctx))

Size ==
    /\ ~crashed
    /\ \E ctx \in Live :
          Do("EVP_MAC_size", [ctx |-> ctx], EVP_MAC_size(W, ctx))

MacInit ==
    /\ ~crashed
    /\ \E ctx \in Ready :
          Do("EVP_MAC_init", [ctx |-> ctx], EVP_MAC_init(W, ctx))

Update ==
    /\ ~crashed
    /\ \E ctx \in Ready, data \in ByteStrings :
          Do("EVP_MAC_update", [ctx |-> ctx, data |-> data],
             EVP_MAC_update(W, ctx, data))

Final ==
    /\ ~crashed
    /\ \E ctx \in Ready, out, poutlen \in BOOLEAN :
          Do("EVP_MAC_final", [ctx |-> ctx, out |-> out, poutlen |-> poutlen],
             EVP_MAC_final(W, ctx, out, poutlen))

\* A control entry is given ctx->data unchecked: see Ready.
CtrlTargets(has) == {NULL} \cup {c \in Live : has[c] => ctxs[c].data # NULL}

Ctrl ==
    /\ ~crashed
    /\ \E ctx \in CtrlTargets([c \in CtxIds |-> ctxs[c].meth.has_ctrl]),
          cmd \in Cmds, key \in Keys :
          Do("EVP_MAC_ctrl", [ctx |-> ctx, cmd |-> cmd, key |-> key],
             EVP_MAC_ctrl(W, ctx, cmd, [bytes |-> key, len |-> Len(key)]))

CtrlStr ==
    /\ ~crashed
    /\ \E ctx \in CtrlTargets([c \in CtxIds |-> ctxs[c].meth.has_ctrl_str]),
          type \in {"key", "other"}, value \in Keys :
          Do("EVP_MAC_ctrl_str", [ctx |-> ctx, type |-> type, value |-> value],
             EVP_MAC_ctrl_str(W, ctx, type, value))

Hex2ctrl ==
    /\ ~crashed
    /\ \E ctx \in CtrlTargets([c \in CtxIds |-> ctxs[c].meth.has_ctrl]),
          cmd \in Cmds, hex \in HexInputs, allocok \in BOOLEAN :
          Do("EVP_MAC_hex2ctrl", [ctx |-> ctx, cmd |-> cmd, hex |-> hex, allocok |-> allocok],
             EVP_MAC_hex2ctrl(W, ctx, cmd, hex, allocok))

\* What the allocator and mac->new() do during a call, and what the build
\* makes of the store through a null pointer.
Envs == [allocok : BOOLEAN, newok : BOOLEAN, ub : {"crash", "skip"}]

OneshotInputs ==
    [mac : Macs, key : Keys, data : ByteStrings, out : BOOLEAN, poutlen : BOOLEAN,
     env : Envs]

\* A caller about to make one EVP_MAC_oneshot call with the inputs in.
OneshotInit ==
    /\ ctxs = [c \in CtxIds |-> DeadCtx]
    /\ priv = [p \in PrivIds |-> BlankPriv]
    /\ crashed = FALSE
    /\ \E in \in OneshotInputs : last = [NoCall EXCEPT !.op = "call", !.in = in]

Oneshot ==
    /\ ~crashed
    /\ last.op = "call"
    /\ \E in \in {last.in} :
          Do("EVP_MAC_oneshot", in,
             EVP_MAC_oneshot(W, in.mac, in.key, in.data, in.out, in.poutlen,
                             in.env.allocok, in.env.newok, in.env.ub))

\* Lifecycle: contexts of two descriptors created, copied onto each other,
\* reset and freed.
Next ==
    \/ (New /\ last'.in.mac \in {MacHmac, MacPoly})
    \/ Free
    \/ Copy
    \/ Reset

Spec == Init /\ [][Next]_vars

\* Two contexts of one descriptor, one copied onto the other, each driven
\* through every call that changes its private state.
CopyNext ==
    \/ (New /\ last'.in.mac = MacHmac)
    \/ Copy
    \/ Reset
    \/ MacInit
    \/ Update
    \/ Ctrl

SpecCopy == Init /\ [][CopyNext]_vars

\* One context at a time driven through the streaming calls.
StreamNext ==
    \/ (New /\ Live = {})
    \/ Free
    \/ Reset
    \/ Size
    \/ MacInit
    \/ Update
    \/ Final
    \/ Ctrl

SpecStream == Init /\ [][StreamNext]_vars

\* One context at a time given control commands.
CtrlNext ==
    \/ (New /\ Live = {})
    \/ Free
    \/ Ctrl
    \/ CtrlStr
    \/ Hex2ctrl

SpecCtrl == Init /\ [][CtrlNext]_vars

\* Two threads, each driving a context of its own; the two contexts share
\* one descriptor.  A step is one call by one of the threads, so that the
\* calls on the two contexts interleave in every order.
ThreadsNext ==
    \/ (New /\ Cardinality(Live) < 2 /\ last'.in.mac = MacHmac)
    \/ Reset
    \/ Size
    \/ MacInit
    \/ Update
    \/ Final
    \/ Ctrl

SpecThreads == Init /\ [][ThreadsNext]_vars

\* The calls that report errors: two contexts, of a descriptor with both
\* control entries and of one with neither, are created, copied onto each
\* other and given control commands.
ErrNext ==
    \/ (New /\ Cardinality(Live) < 2 /\ last'.in.mac \in {MacHmac, MacBare})
    \/ Copy
    \/ Ctrl
    \/ CtrlStr

SpecErr == Init /\ [][ErrNext]_vars

\* One EVP_MAC_oneshot call, for every input.
SpecOneshot == OneshotInit /\ [][Oneshot]_vars


\* ================================================================ claims
\* What a later EVP_MAC_final with a buffer would return and write for the
\* context c.
FinalOf(c) == mac_final(ctxs[c].meth, priv[ctxs[c].data])

\* The entries of the descriptor-call log made through the entry fn.
CallsOf(fn) == {i \in 1..Len(last.calls) : last.calls[i].fn = fn}

OneshotOrder ==
    <<"EVP_MAC_CTX_new", "EVP_MAC_init", "EVP_MAC_ctrl", "EVP_MAC_update", "EVP_MAC_final">>

\* A step of the one-shot succeeded: a context for EVP_MAC_CTX_new, status 1
\* for the set-key control, non-zero for Init, Update and Final.
StepOk(s) ==
    CASE s.fn = "EVP_MAC_CTX_new" -> s.ret # NULL
      [] s.fn = "EVP_MAC_ctrl" -> s.ret = 1
      [] OTHER -> s.ret # 0

\* C1: EVP_MAC_oneshot runs Create, Init, set-key, Update, Final in this
\* order and stops at the first step that fails, a set-key status of 0 or
\* below included: no step follows a failed one, the update and final
\* entries are not invoked after a failed set-key, and the result is 1
\* exactly when all five steps ran and succeeded.
C1_OneshotStopsAtFirstFailure ==
    (last.op = "EVP_MAC_oneshot" /\ last.returned) =>
        LET steps == last.res.steps
        IN /\ Len(steps) <= 5
           /\ \A i \in 1..Len(steps) : steps[i].fn = OneshotOrder[i]
           /\ \A i \in 1..(Len(steps) - 1) : StepOk(steps[i])
           /\ (\E i \in 1..Len(steps) : steps[i].fn = "EVP_MAC_ctrl" /\ steps[i].ret <= 0)
                 => (CallsOf("update") = {} /\ CallsOf("final") = {})
           /\ (last.ret = 1) <=> (Len(steps) = 5 /\ \A i \in 1..5 : StepOk(steps[i]))
           /\ last.ret \in {0, 1}

\* C2: a failing EVP_MAC_CTX_new (allocation or mac->new() fails) releases
\* the context it allocated, returns NULL as an ordinary return and makes
\* no access through the null context; a successful one returns a context
\* that holds the private state new() made and the descriptor.
C2_NewFailsCleanly ==
    (last.op = "EVP_MAC_CTX_new") =>
        IF last.in.allocok /\ last.in.newok
        THEN /\ last.returned /\ last.ret # NULL /\ ~last.deref
             /\ ctxs[last.ret].live
             /\ ctxs[last.ret].meth = last.in.mac
             /\ Len(last.calls) = 1 /\ last.calls[1].fn = "new"
             /\ ctxs[last.ret].data = last.calls[1].ret
             /\ priv[ctxs[last.ret].data].st = "live"
        ELSE /\ last.returned /\ last.ret = NULL
             /\ ~last.deref
             /\ Len(last.released) = (IF last.in.allocok THEN 1 ELSE 0)
             /\ \A i \in 1..Len(last.released) : ~ctxs[last.released[i]].live

Owners(p) == {c \in Live : ctxs[c].data = p}

\* C3: no private state leaks: every private state produced is owned by
\* exactly one live context or was destroyed exactly once, and once no
\* context is live each was destroyed exactly once.
C3_NoPrivateStateLeak ==
    \A p \in PrivIds :
        /\ priv[p].st = "live" => Cardinality(Owners(p)) = 1
        /\ priv[p].st = "freed" => (priv[p].nfree = 1 /\ Owners(p) = {})
        /\ priv[p].st = "unalloc" => Owners(p) = {}

Mutators == {"EVP_MAC_update", "EVP_MAC_reset", "EVP_MAC_init", "EVP_MAC_ctrl"}

\* C4: contexts are isolated, a copy from its source as well: a call of
\* Update, Reset, Init or ctrl on one context leaves every other context,
\* its private state and so the result of a later Final on it unchanged.
C4_CopyIsolation ==
    [][\A d \in CtxIds :
          (/\ last'.op \in Mutators
           /\ last'.in.ctx # d
           /\ d \in Ready)
          => /\ ctxs'[d] = ctxs[d]
             /\ priv'[ctxs[d].data] = priv[ctxs[d].data]
             /\ FinalOf(d)'.ret = FinalOf(d).ret
             /\ FinalOf(d)'.out = FinalOf(d).out]_vars

\* A call changed the private state of a copy's source (the context that
\* owns the state new() made) while the other context holds the duplicate
\* copy() made, and the two now differ.
C4_Witness ==
    /\ last.op \in Mutators
    /\ last.ret = 1
    /\ \E c, d \in Ready :
          /\ c # d
          /\ last.in.ctx = c
          /\ priv[ctxs[c].data].via = "new"
          /\ priv[ctxs[d].data].via = "copy"
          /\ FinalOf(c).out # FinalOf(d).out

\* C5: EVP_MAC_oneshot returns normally on every path, having destroyed the
\* private state it constructed exactly once and released its context.
C5_OneshotAlwaysReleases ==
    (last.op = "EVP_MAC_oneshot") =>
        /\ last.returned
        /\ \A i \in CallsOf("new") :
              last.calls[i].ret # NULL =>
                 Cardinality({j \in CallsOf("free") : last.calls[j].p = last.calls[i].ret}) = 1
        /\ Live = {}
        /\ \A p \in PrivIds : priv[p].st # "live"
        /\ Len(last.released) = (IF last.res.steps[1].ret # NULL THEN 1 ELSE 0)


\* C6: EVP_MAC_ctrl returns -2 without invoking any descriptor entry when
\* the context, its descriptor reference or the descriptor's ctrl entry is
\* absent; otherwise it invokes the ctrl entry exactly once, on the
\* context's private state and with the command given, and returns the
\* entry's status unchanged.
C6_CtrlRouting ==
    (last.op = "EVP_MAC_ctrl") =>
        LET ctx == last.in.ctx
        IN /\ last.returned
           /\ IF ctx = NULL \/ ctxs[ctx].meth = NoMeth \/ ~ctxs[ctx].meth.has_ctrl
              THEN last.ret = -2 /\ last.calls = <<>>
              ELSE /\ Len(last.calls) = 1
                   /\ last.calls[1].fn = "ctrl"
                   /\ last.calls[1].mac = ctxs[ctx].meth.name
                   /\ last.calls[1].p = ctxs[ctx].data
                   /\ last.calls[1].arg = [cmd |-> last.in.cmd, bytes |-> last.in.key,
                                           len |-> Len(last.in.key)]
                   /\ last.ret = last.calls[1].ret
                   /\ last.ret \in {1, 0, -1, -2}

\* EVP_MAC_ctrl on a live context whose descriptor has no ctrl entry.
C6_Witness ==
    /\ last.op = "EVP_MAC_ctrl"
    /\ last.in.ctx \in Ready
    /\ ~ctxs[last.in.ctx].meth.has_ctrl
    /\ last.ret = -2
    /\ last.calls = <<>>

\* C7: EVP_MAC_size on a context fresh from a successful Create, before any
\* Init, returns 0; right after a successful Init it returns the
\* descriptor's positive output size; a repeated Size returns the same.
C7_SizeZeroBeforeInit ==
    [][(last'.op = "EVP_MAC_size") =>
          /\ (last.op = "EVP_MAC_CTX_new" /\ last.ret # NULL /\ last'.in.ctx = last.ret)
                => last'.ret = 0
          /\ (last.op = "EVP_MAC_init" /\ last.ret = 1 /\ last'.in.ctx = last.in.ctx)
                => (last'.ret = ctxs[last.in.ctx].meth.outsize /\ last'.ret > 0)
          /\ (last.op = "EVP_MAC_size" /\ last'.in.ctx = last.in.ctx)
                => last'.ret = last.ret]_vars

\* C8: EVP_MAC_final writes the size() result to the length destination
\* whenever one is supplied; without an output buffer it returns 1, does
\* not invoke the final entry and changes nothing; with one it invokes
\* the final entry once, on the context's private state, and returns its
\* result.
C8_FinalSizeQuery ==
    [][(last'.op = "EVP_MAC_final") =>
          LET in == last'.in
              c == ctxs[in.ctx]
              res == last'.res
              sizes == {i \in 1..Len(last'.calls) : last'.calls[i].fn = "size"}
              finals == {i \in 1..Len(last'.calls) : last'.calls[i].fn = "final"}
          IN /\ res.wrotelen = in.poutlen
             /\ in.poutlen => /\ res.outlen = mac_size(c.meth, priv[c.data])
                              /\ Cardinality(sizes) = 1
             /\ ~in.out => /\ last'.ret = 1
                           /\ finals = {}
                           /\ ~res.wrote
                           /\ ctxs' = ctxs /\ priv' = priv
             /\ in.out => /\ Cardinality(finals) = 1
                          /\ \A i \in finals : /\ last'.calls[i].p = c.data
                                               /\ last'.calls[i].ret = last'.ret
                          /\ last'.ret = mac_final(c.meth, priv[c.data]).ret
                          /\ res.wrote => res.out = Tag(c.meth, priv[c.data])]_vars

\* A size query: Final with a length destination and no buffer, on a
\* computation that has absorbed data.
C8_Witness ==
    /\ last.op = "EVP_MAC_final"
    /\ ~last.in.out /\ last.in.poutlen
    /\ last.ret = 1
    /\ last.res.wrotelen /\ last.res.outlen > 0
    /\ priv[ctxs[last.in.ctx].data].acc # 0

\* C9: EVP_MAC_CTX_free does nothing on a null context; releases a context
\* without private state without invoking the free entry; and for a
\* context with private state invokes the free entry exactly once, on that
\* state, then releases the context.  No other context, private state or
\* descriptor reference changes.
C9_FreeSafe ==
    [][(last'.op = "EVP_MAC_CTX_free") =>
          LET ctx == last'.in.ctx
          IN /\ last'.returned
             /\ IF ctx = NULL
                THEN /\ ctxs' = ctxs /\ priv' = priv
                     /\ last'.calls = <<>> /\ last'.released = <<>>
                ELSE /\ ctxs' = [ctxs EXCEPT ![ctx] = DeadCtx]
                     /\ last'.released = <<ctx>>
                     /\ IF ctxs[ctx].data = NULL
                        THEN last'.calls = <<>> /\ priv' = priv
                        ELSE LET p == ctxs[ctx].data
                             IN /\ Len(last'.calls) = 1
                                /\ last'.calls[1].fn = "free"
                                /\ last'.calls[1].p = p
                                /\ last'.calls[1].mac = ctxs[ctx].meth.name
                                /\ priv'[p].st = "freed"
                                /\ priv'[p].nfree = priv[p].nfree + 1
                                /\ \A q \in PrivIds \ {p} : priv'[q] = priv[q]]_vars

\* A context with private state was freed: its state was live and is now
\* destroyed once, and the context is gone.
C9_Witness ==
    /\ last.op = "EVP_MAC_CTX_free"
    /\ last.in.ctx # NULL
    /\ ~ctxs[last.in.ctx].live
    /\ Len(last.calls) = 1
    /\ priv[last.calls[1].p].st = "freed"
    /\ priv[last.calls[1].p].nfree = 1

\* C10: EVP_MAC_hex2ctrl returns 0 without calling EVP_MAC_ctrl when the
\* decoding fails, -1 without calling it when the decoded length exceeds
\* INT_MAX, and otherwise does and returns what EVP_MAC_ctrl does with the
\* decoded bytes and their length; a decoded buffer is released exactly
\* once.
C10_Hex2ctrl ==
    [][(last'.op = "EVP_MAC_hex2ctrl") =>
          LET in == last'.in
              bin == OPENSSL_hexstr2buf(in.hex, in.allocok)
              fwd == EVP_MAC_ctrl(W, in.ctx, in.cmd,
                                  [bytes |-> bin.bytes, len |-> Len(bin.bytes) + bin.extra])
              untouched == /\ last'.calls = <<>> /\ last'.errs = <<>>
                           /\ priv' = priv /\ ctxs' = ctxs
          IN /\ last'.returned
             /\ IF ~bin.ok
                THEN /\ last'.ret = 0 /\ untouched
                     /\ last'.balloc = 0 /\ last'.bfree = 0
                ELSE /\ last'.balloc = 1 /\ last'.bfree = 1
                     /\ IF ~FitsInt(bin)
                        THEN last'.ret = -1 /\ untouched
                        ELSE /\ last'.ret = fwd.ret
                             /\ last'.calls = fwd.w.calls
                             /\ last'.errs = fwd.w.errs
                             /\ priv' = fwd.w.priv /\ ctxs' = fwd.w.ctxs]_vars

\* "00ff" was decoded to the two bytes 0, 255 and forwarded with length 2
\* to the ctrl entry, and the buffer was released.
C10_Witness ==
    /\ last.op = "EVP_MAC_hex2ctrl"
    /\ last.in.hex.digits = <<"0", "0", "f", "f">>
    /\ Len(last.calls) = 1
    /\ last.calls[1].fn = "ctrl"
    /\ last.calls[1].arg.bytes = <<0, 255>>
    /\ last.calls[1].arg.len = 2
    /\ last.ret = last.calls[1].ret
    /\ last.balloc = 1 /\ last.bfree = 1

\* The manual sequence a caller writes with the same functions on a fresh
\* context: Create, Init, set-key, Update, Final, given up at the first step
\* that does not succeed (no context, a status other than 1 from the
\* set-key control, 0 from Init, Update or Final).  Its status and what it
\* wrote to the output buffer and the length destination.
ManualFail == [ret |-> 0, wrote |-> FALSE, out |-> <<>>, wrotelen |-> FALSE, outlen |-> 0]

ManualFinal(w, ctx, out, poutlen) ==
    The({[ret |-> IF f.ret = 0 THEN 0 ELSE 1, wrote |-> f.wrote, out |-> f.out,
          wrotelen |-> f.wrotelen, outlen |-> f.outlen] :
         f \in {EVP_MAC_final(w, ctx, out, poutlen)}})

ManualUpdate(w, ctx, data, out, poutlen) ==
    The({IF u.ret = 0 THEN ManualFail ELSE ManualFinal(u.w, ctx, out, poutlen) :
         u \in {EVP_MAC_update(w, ctx, data)}})

ManualCtrl(w, ctx, key, data, out, poutlen) ==
    The({IF k.ret # 1 THEN ManualFail ELSE ManualUpdate(k.w, ctx, data, out, poutlen) :
         k \in {EVP_MAC_ctrl(w, ctx, EVP_MAC_CTRL_SET_KEY,
                             [bytes |-> key, len |-> Len(key)])}})

ManualInit(w, ctx, key, data, out, poutlen) ==
    The({IF i.ret = 0 THEN ManualFail ELSE ManualCtrl(i.w, ctx, key, data, out, poutlen) :
         i \in {EVP_MAC_init(w, ctx)}})

Manual(in) ==
    The({IF n.ret = NULL THEN ManualFail
         ELSE ManualInit(n.w, n.ret, in.key, in.data, in.out, in.poutlen) :
         n \in {EVP_MAC_CTX_new(World([c \in CtxIds |-> DeadCtx],
                                      [p \in PrivIds |-> BlankPriv]),
                                in.mac, in.env.allocok, in.env.newok, in.env.ub)}})

\* C11: an EVP_MAC_oneshot call that returns gives the same status, the same
\* output bytes and the same output length as the manual sequence Create,
\* Init, set-key, Update, Final on a fresh context with the same
\* descriptor, key and message.
C11_OneshotEqualsManual ==
    (last.op = "EVP_MAC_oneshot" /\ last.returned) =>
        \E m \in {Manual(last.in)} :
            /\ last.ret = m.ret
            /\ last.res.wrote = m.wrote
            /\ last.res.out = m.out
            /\ last.res.wrotelen = m.wrotelen
            /\ last.res.outlen = m.outlen

ThreadOps ==
    {"EVP_MAC_init", "EVP_MAC_update", "EVP_MAC_final", "EVP_MAC_reset",
     "EVP_MAC_size", "EVP_MAC_ctrl"}

\* The world in which the context c is alone: no other context and no other
\* private state exists.
Solo(w, c) ==
    [w EXCEPT !.ctxs = [d \in CtxIds |-> IF d = c THEN w.ctxs[d] ELSE DeadCtx],
              !.priv = [p \in PrivIds |-> IF p = w.ctxs[c].data THEN w.priv[p]
                                          ELSE BlankPriv]]

\* The call op with the inputs in, made in the world w.
CallOf(w, op, in) ==
    CASE op = "EVP_MAC_init" -> EVP_MAC_init(w, in.ctx)
      [] op = "EVP_MAC_update" -> EVP_MAC_update(w, in.ctx, in.data)
      [] op = "EVP_MAC_final" -> EVP_MAC_final(w, in.ctx, in.out, in.poutlen)
      [] op = "EVP_MAC_reset" -> EVP_MAC_reset(w, in.ctx)
      [] op = "EVP_MAC_size" -> EVP_MAC_size(w, in.ctx)
      [] op = "EVP_MAC_ctrl" -> EVP_MAC_ctrl(w, in.ctx, in.cmd,
                                             [bytes |-> in.key, len |-> Len(in.key)])

\* C12: with the calls of two threads on two contexts of one descriptor
\* interleaved in every order, each call of Init, Update, Final, Reset, Size
\* or ctrl on a context returns, writes and leaves in the context's private
\* state what the same call does when the context is alone, and changes no
\* other context, no other private state, no context structure and no
\* descriptor: so each context's results are those of its own calls run
\* alone in the same order.
C12_ThreadsIndependent ==
    [][(last'.op \in ThreadOps /\ last'.in.ctx # NULL) =>
          \E c \in {last'.in.ctx} : \E s \in {CallOf(Solo(W, c), last'.op, last'.in)} :
              /\ last'.returned
              /\ last'.ret = s.ret
              /\ last'.calls = s.w.calls
              /\ last'.res = [f \in DOMAIN s \ {"w", "ret"} |-> s[f]]
              /\ ctxs' = ctxs
              /\ \A p \in PrivIds :
                    priv'[p] = IF p = ctxs[c].data THEN s.w.priv[p] ELSE priv[p]]_vars

\* A thread has finished a computation on its context (Final wrote a tag)
\* while the other thread's context, of the same descriptor, is in the
\* middle of a computation that would yield a different tag.
C12_Witness ==
    /\ last.op = "EVP_MAC_final"
    /\ last.res.wrote
    /\ \E d \in Ready \ {last.in.ctx} :
          /\ ctxs[d].meth = ctxs[last.in.ctx].meth
          /\ priv[ctxs[d].data].inited
          /\ priv[ctxs[d].data].acc # 0
          /\ FinalOf(d).out # last.res.out

\* C13: no two live contexts hold the same private-state object: the
\* private state a live context holds is a live object that this context
\* alone references.
C13_PrivateStateDisjoint ==
    \A c \in Live :
        ctxs[c].data # NULL =>
            /\ priv[ctxs[c].data].st = "live"
            /\ \A d \in Live \ {c} : ctxs[d].data # ctxs[c].data

\* A successful copy onto a context that held private state: source and
\* destination now hold two different objects with the same contents.
C13_Witness ==
    /\ last.op = "EVP_MAC_CTX_copy"
    /\ last.ret = 1
    /\ last.in.dst \in Ready /\ last.in.src \in Ready
    /\ ctxs[last.in.dst].data # ctxs[last.in.src].data
    /\ priv[ctxs[last.in.dst].data].via = "copy"
    /\ \E p \in PrivIds : priv[p].st = "live" /\ Owners(p) = {}

\* C14: every live context has a descriptor reference, and the private
\* state it holds was produced by the new or copy entry of that same
\* descriptor; right after a copy the destination has the source's
\* descriptor, and the private state it received was made by the copy
\* entry of the source's descriptor.
C14_DescriptorMatchesState ==
    /\ \A c \in Live :
          /\ ctxs[c].meth # NoMeth
          /\ ctxs[c].meth \in Macs
          /\ ctxs[c].data # NULL =>
                /\ priv[ctxs[c].data].by = ctxs[c].meth.name
                /\ priv[ctxs[c].data].via \in {"new", "copy"}
    /\ (last.op = "EVP_MAC_CTX_copy") =>
          /\ ctxs[last.in.dst].meth = ctxs[last.in.src].meth
          /\ \A i \in CallsOf("copy") :
                /\ last.calls[i].mac = ctxs[last.in.src].meth.name
                /\ last.calls[i].p = ctxs[last.in.src].data
          /\ ctxs[last.in.dst].data # NULL =>
                /\ priv[ctxs[last.in.dst].data].via = "copy"
                /\ Cardinality(CallsOf("copy")) = 1

\* A copy between contexts created from different descriptors: the
\* destination, created from one descriptor, now has the other and a
\* private state that descriptor's copy entry made.
C14_Witness ==
    /\ last.op = "EVP_MAC_CTX_copy"
    /\ last.ret = 1
    /\ last.in.dst \in Ready
    /\ ctxs[last.in.dst].meth = MacPoly
    /\ priv[ctxs[last.in.dst].data].by = "poly"
    /\ \E p \in PrivIds : /\ priv[p].st = "live" /\ Owners(p) = {}
                          /\ priv[p].by = "hmac" /\ priv[p].via = "new"

\* C15: EVP_MAC_reset on a context without private state returns 1,
\* invokes no descriptor entry and changes nothing; on a context with
\* private state it invokes the reset entry exactly once, on that state,
\* and returns the entry's result; the context keeps its descriptor and the
\* same private-state object, and nothing is allocated or released.
C15_ResetInPlace ==
    [][(last'.op = "EVP_MAC_reset") =>
          LET ctx == last'.in.ctx
              p == ctxs[ctx].data
          IN /\ last'.returned
             /\ ctxs' = ctxs
             /\ last'.released = <<>>
             /\ IF p = NULL
                THEN /\ last'.ret = 1
                     /\ last'.calls = <<>>
                     /\ priv' = priv
                ELSE /\ Len(last'.calls) = 1
                     /\ last'.calls[1].fn = "reset"
                     /\ last'.calls[1].p = p
                     /\ last'.calls[1].mac = ctxs[ctx].meth.name
                     /\ last'.ret = last'.calls[1].ret
                     /\ last'.ret = mac_reset(ctxs[ctx].meth, priv[p]).ret
                     /\ priv'[p] = mac_reset(ctxs[ctx].meth, priv[p]).s
                     /\ priv'[p].st = "live"
                     /\ \A q \in PrivIds \ {p} : priv'[q] = priv[q]]_vars

\* Reset was called on a context that a failed copy left without private
\* state, and returned 1 with no entry invoked.
C15_Witness ==
    /\ last.op = "EVP_MAC_reset"
    /\ last.in.ctx \in Live \ Ready
    /\ last.ret = 1
    /\ last.calls = <<>>

\* C16: EVP_MAC_ctrl_str returns -2 without invoking any descriptor entry
\* when the context, its descriptor reference or the descriptor's ctrl_str
\* entry is absent; otherwise it invokes the ctrl_str entry exactly once,
\* on the context's private state with the name and value given, and
\* returns the entry's status unchanged.
C16_CtrlStrRouting ==
    [][(last'.op = "EVP_MAC_ctrl_str") =>
          LET ctx == last'.in.ctx
          IN /\ last'.returned
             /\ ctxs' = ctxs
             /\ IF ctx = NULL \/ ctxs[ctx].meth = NoMeth \/ ~ctxs[ctx].meth.has_ctrl_str
                THEN /\ last'.ret = -2
                     /\ last'.calls = <<>>
                     /\ priv' = priv
                ELSE /\ Len(last'.calls) = 1
                     /\ last'.calls[1].fn = "ctrl_str"
                     /\ last'.calls[1].mac = ctxs[ctx].meth.name
                     /\ last'.calls[1].p = ctxs[ctx].data
                     /\ last'.calls[1].arg = [type |-> last'.in.type,
                                              value |-> last'.in.value]
                     /\ last'.ret = last'.calls[1].ret
                     /\ last'.ret = mac_ctrl_str(ctxs[ctx].meth, priv[ctxs[ctx].data],
                                                 last'.in.type, last'.in.value).ret]_vars

\* EVP_MAC_ctrl_str on a live context whose descriptor has a ctrl entry but
\* no ctrl_str entry.
C16_Witness ==
    /\ last.op = "EVP_MAC_ctrl_str"
    /\ last.in.ctx \in Ready
    /\ ctxs[last.in.ctx].meth.has_ctrl
    /\ ~ctxs[last.in.ctx].meth.has_ctrl_str
    /\ last.ret = -2
    /\ last.calls = <<>>

\* C17: a call of EVP_MAC_ctrl or EVP_MAC_ctrl_str that ends in -2 has
\* reported COMMAND_NOT_SUPPORTED under its own name, whether the context
\* or the entry was absent or the entry itself returned -2; a call of
\* EVP_MAC_CTX_new or EVP_MAC_CTX_copy in which the allocation, new() or
\* copy() failed has reported MALLOC_FAILURE under its own name; and a call
\* of any of the four that succeeds has reported nothing.
C17_ErrorsReported ==
    /\ (last.op \in {"EVP_MAC_ctrl", "EVP_MAC_ctrl_str"}) =>
          /\ last.ret = -2 => (/\ last.errs # <<>>
                               /\ \A i \in 1..Len(last.errs) :
                                     last.errs[i] = <<last.op, "COMMAND_NOT_SUPPORTED">>)
          /\ last.ret = 1 => last.errs = <<>>
    /\ (last.op = "EVP_MAC_CTX_new") =>
          IF last.in.allocok /\ last.in.newok
          THEN last.errs = <<>>
          ELSE last.errs = <<<<"EVP_MAC_CTX_new", "MALLOC_FAILURE">>>>
    /\ (last.op = "EVP_MAC_CTX_copy") =>
          /\ last.ret = 0 => last.errs = <<<<"EVP_MAC_CTX_copy", "MALLOC_FAILURE">>>>
          /\ last.ret = 1 => last.errs = <<>>
          /\ (\E i \in CallsOf("copy") : last.calls[i].ret = NULL) => last.ret = 0

\* The ctrl entry itself answered -2 to a command it does not know, and the
\* router reported it.
C17_Witness ==
    /\ last.op = "EVP_MAC_ctrl"
    /\ last.ret = -2
    /\ Len(last.calls) = 1
    /\ last.calls[1].ret = -2
    /\ last.errs = <<<<"EVP_MAC_ctrl", "COMMAND_NOT_SUPPORTED">>>>

\* What EVP_MAC_final with a buffer and a length destination gives for the
\* context c after the byte strings of chunks were given to EVP_MAC_update
\* one after the other, starting in the world w: the statuses of the
\* updates, and the status, tag and length of the final.
RECURSIVE UpdatesThenFinal(_, _, _, _)
UpdatesThenFinal(w, c, chunks, rets) ==
    IF chunks = <<>>
    THEN The({[updates |-> rets, ret |-> f.ret, out |-> f.out, outlen |-> f.outlen] :
              f \in {EVP_MAC_final(w, c, TRUE, TRUE)}})
    ELSE The({UpdatesThenFinal(u.w, c, Tail(chunks), rets \cup {u.ret}) :
              u \in {EVP_MAC_update(w, c, Head(chunks))}})

\* C18: chunking independence: for a context that Create and Init have
\* set up, and after any Update on it, Update(b1), Update(b2), Final gives
\* the same status, tag and length as Update(b1 followed by b2), Final; and
\* each EVP_MAC_update call invokes the update entry exactly once, on the
\* context's private state with exactly the bytes given, and returns its
\* result.
C18_ChunkingIndependence ==
    /\ (last.op \in {"EVP_MAC_init", "EVP_MAC_update"}) =>
          \A c \in {last.in.ctx} : \A b1 \in ByteStrings, b2 \in ByteStrings :
          \E two \in {UpdatesThenFinal(W, c, <<b1, b2>>, {})} :
          \E one \in {UpdatesThenFinal(W, c, <<b1 \o b2>>, {})} :
              /\ two.updates = one.updates
              /\ two.ret = one.ret
              /\ two.out = one.out
              /\ two.outlen = one.outlen
    /\ (last.op = "EVP_MAC_update") =>
          /\ last.returned
          /\ Len(last.calls) = 1
          /\ last.calls[1].fn = "update"
          /\ last.calls[1].mac = ctxs[last.in.ctx].meth.name
          /\ last.calls[1].p = ctxs[last.in.ctx].data
          /\ last.calls[1].arg = last.in.data
          /\ last.ret = last.calls[1].ret

\* A second chunk: Update was given bytes on a computation that had
\* absorbed bytes since its Init, and the two chunks together left what
\* one Update with both would have.
C18_Witness ==
    /\ last.op = "EVP_MAC_update"
    /\ last.in.data # <<>>
    /\ last.ret = 1
    /\ \E s \in {priv[ctxs[last.in.ctx].data]} :
          /\ s.inited
          /\ s.acc # Absorb(0, last.in.data)
          /\ s.acc = Absorb(0, last.in.data \o last.in.data)

\* The private state p after the contexts of cs were freed in this order,
\* starting in the world w.
RECURSIVE AfterFrees(_, _, _)
AfterFrees(w, cs, p) ==
    IF cs = <<>> THEN w.priv[p]
    ELSE The({AfterFrees(f, Tail(cs), p) : f \in {EVP_MAC_CTX_free(w, Head(cs))}})

\* C19: when the copy entry fails in EVP_MAC_CTX_copy(dst, src) and src
\* holds private state, the copy returns 0, src keeps its descriptor and
\* its private state unchanged, dst has src's descriptor and no private
\* state, and freeing dst and src afterwards, in either order, destroys
\* src's private state exactly once.
C19_FailedCopyLeavesNoAlias ==
    [][(/\ last'.op = "EVP_MAC_CTX_copy"
        /\ ~last'.in.copyok
        /\ ctxs[last'.in.src].data # NULL) =>
          LET dst == last'.in.dst
              src == last'.in.src
              p == ctxs[src].data
          IN /\ last'.returned
             /\ last'.ret = 0
             /\ ctxs'[src] = ctxs[src]
             /\ priv'[p] = priv[p]
             /\ ctxs'[dst].live
             /\ ctxs'[dst].meth = ctxs[src].meth
             /\ ctxs'[dst].data = NULL
             /\ \A cs \in {<<dst, src>>, <<src, dst>>} :
                   \E s \in {AfterFrees(World(ctxs', priv'), cs, p)} :
                       s.st = "freed" /\ s.nfree = 1]_vars

\* A copy whose duplicate failed: it returned 0, the destination is live
\* without private state and the source still holds its own.
C19_Witness ==
    /\ last.op = "EVP_MAC_CTX_copy"
    /\ ~last.in.copyok
    /\ last.ret = 0
    /\ last.in.dst \in Live \ Ready
    /\ last.in.src \in Ready
    /\ priv[ctxs[last.in.src].data].st = "live"

====
